---- MODULE Spec2Model ----
(***************************************************************************)
(* kanji_deck (src/main.py): scraping of per-character reading and usage   *)
(* data, ranking of the readings by usage percentage, and the push of the  *)
(* formatted fields to the flashcard application.                          *)
(*                                                                         *)
(* Text is modelled as a sequence: a reading token is a sequence of        *)
(* Unicode code points, a meaning or a percentage cell is a sequence of    *)
(* text atoms.  A Python dict is an insertion-ordered sequence of          *)
(* [reading, ...] entries with pairwise distinct readings.                 *)
(***************************************************************************)
EXTENDS Integers, Sequences, FiniteSets, TLC

VARIABLES
    pc,                 \* position of main(), or of the function under call
    reading_list,       \* extract_reading_type: the <li> items of the category
    readings,           \* extract_reading_type: the dict it returns
    soup_rows,          \* extract_kanji_usage_data: the <tr> rows of the page
    kanji_usage_data,   \* extract_kanji_usage_data: what it returns or raises
    kunyomi,            \* filter_and_sort_readings: the three category dicts
    onyomi,
    nanori,
    filtered,           \* filter_and_sort_readings: the returned triple
    kanjis,             \* main: the loaded character list
    task,               \* main: the state of each submitted pool task
    future,             \* main: the outcome held by each task's future
    finished,           \* main: the task indices in the order the tasks finished
    kanji_data,         \* main: the collected results
    kanji_data_json,    \* main: the content of kanji_data.json
    target,             \* main: index of the character under update
    notes_left,         \* main: note ids still to update for that character
    calls               \* main: the invoke() calls issued so far

readingVars == <<reading_list, readings>>
coreVars == <<soup_rows, kanji_usage_data, kunyomi, onyomi, nanori, filtered>>
mainVars == <<kanjis, task, future, finished, kanji_data, kanji_data_json, target,
              notes_left, calls>>
vars == <<pc, readingVars, coreVars, mainVars>>

(***************************************************************************)
(* Bounds of the model.                                                    *)
(***************************************************************************)
MaxItems == 3       \* <li> items of one category list
MaxRows == 2        \* usage-table rows of one page
MaxUsage == 3       \* usage records handed directly to the Ranker
MaxMapping == 3     \* entries of a category mapping handed to the Ranker
MaxKanjis == 2      \* characters in the input list
MaxNotes == 2       \* note ids returned by findNotes

(***************************************************************************)
(* Sequence helpers.                                                       *)
(***************************************************************************)
SeqsUpTo(S, n) == UNION {[1..k -> S] : k \in 0..n}

Range(s) == {s[i] : i \in DOMAIN s}

RECURSIVE Concat(_)
Concat(ss) == IF ss = <<>> THEN <<>> ELSE Head(ss) \o Concat(Tail(ss))

(***************************************************************************)
(* Python dict, insertion ordered: d.get(k, default), k in d, d[k] = v.    *)
(***************************************************************************)
DictKeys(d) == {d[i].reading : i \in DOMAIN d}

DictHas(d, k) == k \in DictKeys(d)

DictIndex(d, k) == CHOOSE i \in DOMAIN d : d[i].reading = k

DictGet(d, k, default) == IF DictHas(d, k) THEN d[DictIndex(d, k)].meaning ELSE default

DictSet(d, k, v) ==
    IF DictHas(d, k)
    THEN [d EXCEPT ![DictIndex(d, k)] = [reading |-> k, meaning |-> v]]
    ELSE Append(d, [reading |-> k, meaning |-> v])

(***************************************************************************)
(* str.strip(chars) for a one-character set, on a sequence.                *)
(***************************************************************************)
RECURSIVE LStrip(_, _)
LStrip(s, c) == IF s # <<>> /\ Head(s) = c THEN LStrip(Tail(s), c) ELSE s

RECURSIVE RStrip(_, _)
RStrip(s, c) ==
    IF s # <<>> /\ s[Len(s)] = c THEN RStrip(SubSeq(s, 1, Len(s) - 1), c) ELSE s

Strip(s, c) == RStrip(LStrip(s, c), c)

Hyphen == 45            \* the code point of "-"
Space == " "            \* a whitespace atom of a meaning text
Separator == ", "       \* the atom the merge puts between two meanings

(***************************************************************************)
(* extract_reading_type, src/main.py:35-53.  A category section is         *)
(* [header, list, items]; an item is [has_table, cells, has_span, text].   *)
(***************************************************************************)
\* lines 46-48: the non-empty cell texts joined, hyphens stripped at both ends
ItemReading(item) == Strip(Concat(SelectSeq(item.cells, LAMBDA c : c # <<>>)), Hyphen)

\* line 49: get_text(strip=True) of the meaning span, "" without a span
ItemMeaning(item) == IF item.has_span THEN Strip(item.text, Space) ELSE <<>>

\* the merge without the accumulation: a later entry overwrites an earlier one
MergeMeaningOverwrite(d, reading, meaning) == DictSet(d, reading, meaning)

\* lines 50-52
MergeMeaning(d, reading, meaning) ==
    DictSet(d, reading,
            DictGet(d, reading, <<>>)
                \o (IF DictGet(d, reading, <<>>) # <<>>
                    THEN <<Separator>> \o meaning
                    ELSE meaning))

\* lines 42-52: the loop over the <li> items
RECURSIVE ReadingLoop(_, _)
ReadingLoop(items, d) ==
    IF items = <<>> THEN d
    ELSE ReadingLoop(Tail(items),
                     IF Head(items).has_table
                     THEN MergeMeaning(d, ItemReading(Head(items)), ItemMeaning(Head(items)))
                     ELSE d)

ExtractReadingType(section) ==
    IF section.header /\ section.list THEN ReadingLoop(section.items, <<>>) ELSE <<>>

(***************************************************************************)
(* Inputs of the Reading Extractor.  The code points are those of あ, い,   *)
(* ア and of the prolonged sound mark ー.                                   *)
(***************************************************************************)
HiraA == <<12354>>
HiraI == <<12356>>
KataA == <<12450>>
Choon == <<12540>>
Dash == <<Hyphen>>

\* the cell texts of あ, of あ and -, of -ア and an empty cell, and of - alone
ItemCells == {<<HiraA>>, <<HiraA, Dash>>, <<Dash \o KataA, <<>>>>, <<Dash>>}

ItemTexts == {<<>>, <<"to meet">>, <<Space, "to fit", Space>>}

ItemSet ==
    {[has_table |-> TRUE, cells |-> c, has_span |-> t # <<>>, text |-> t] :
        c \in ItemCells, t \in ItemTexts}
    \cup {[has_table |-> FALSE, cells |-> <<>>, has_span |-> TRUE, text |-> <<"to meet">>]}

NoSection == [header |-> FALSE, list |-> FALSE, items |-> <<>>]

SectionSet ==
    {[header |-> TRUE, list |-> TRUE, items |-> it] : it \in SeqsUpTo(ItemSet, MaxItems)}
    \cup {NoSection, [header |-> TRUE, list |-> FALSE, items |-> <<>>]}

(***************************************************************************)
(* Values of the variables a specification does not use.                   *)
(***************************************************************************)
IdleReading == reading_list = NoSection /\ readings = <<>>

IdleCore ==
    /\ soup_rows = <<>>
    /\ kanji_usage_data = [raised |-> FALSE, value |-> <<>>]
    /\ kunyomi = <<>> /\ onyomi = <<>> /\ nanori = <<>>
    /\ filtered = <<>>

IdleMain ==
    /\ kanjis = <<>> /\ task = <<>> /\ future = <<>> /\ finished = <<>>
    /\ kanji_data = <<>> /\ kanji_data_json = <<>>
    /\ target = 0 /\ notes_left = <<>> /\ calls = <<>>

(***************************************************************************)
(* SpecReading: one call of extract_reading_type on any category section.  *)
(***************************************************************************)
InitReading ==
    /\ pc = "call"
    /\ reading_list \in SectionSet
    /\ readings = <<>>
    /\ IdleCore /\ IdleMain

CallExtractReadingType ==
    /\ pc = "call"
    /\ readings' = ExtractReadingType(reading_list)
    /\ pc' = "returned"
    /\ UNCHANGED <<reading_list, coreVars, mainVars>>

NextReading == CallExtractReadingType

SpecReading == InitReading /\ [][NextReading]_vars

\* the <li> items that carry a reading table, in document order
ReadEntries ==
    IF reading_list.header /\ reading_list.list
    THEN SelectSeq(reading_list.items, LAMBDA it : it.has_table)
    ELSE <<>>

\* the meanings, in document order, of the entries whose token is r
MeaningsOf(r) ==
    LET es == SelectSeq(ReadEntries, LAMBDA it : ItemReading(it) = r)
    IN  [i \in DOMAIN es |-> ItemMeaning(es[i])]

RECURSIVE DropLeadingEmpty(_)
DropLeadingEmpty(ms) ==
    IF ms # <<>> /\ Head(ms) = <<>> THEN DropLeadingEmpty(Tail(ms)) ELSE ms

RECURSIVE JoinSeparated(_)
JoinSeparated(ms) ==
    IF ms = <<>> THEN <<>>
    ELSE IF Len(ms) = 1 THEN Head(ms)
    ELSE Head(ms) \o <<Separator>> \o JoinSeparated(Tail(ms))

\* C5: the returned mapping has exactly one key per distinct reading token of
\* the category's entries, and the meaning stored under a reading is the
\* meanings of all its entries in document order joined by ", ", no separator
\* being written while the accumulated meaning is still empty; every entry's
\* meaning is part of the stored one.
C5_MergeRule ==
    pc = "returned" =>
        /\ \A i, j \in DOMAIN readings :
                readings[i].reading = readings[j].reading => i = j
        /\ DictKeys(readings) = {ItemReading(it) : it \in Range(ReadEntries)}
        /\ \A r \in DictKeys(readings) :
                /\ DictGet(readings, r, <<>>) = JoinSeparated(DropLeadingEmpty(MeaningsOf(r)))
                /\ \A m \in Range(MeaningsOf(r)) :
                        \A a \in Range(m) : a \in Range(DictGet(readings, r, <<>>))

\* three entries of one reading: an empty meaning, then two non-empty ones
C5_Witness ==
    /\ pc = "returned"
    /\ \E r \in DictKeys(readings) :
            /\ Len(MeaningsOf(r)) = 3
            /\ MeaningsOf(r)[1] = <<>>
            /\ DictGet(readings, r, <<>>) = <<"to meet", Separator, "to fit">>

(***************************************************************************)
(* extract_kanji_usage_data, src/main.py:56-97.  A <tr> row is             *)
(* [cells, has_link, spans, percent]: the number of its <td> cells,        *)
(* whether the first cell holds an <a>, the span.reading elements of that  *)
(* link (each a sequence of children [em, string]) and the text of the     *)
(* second cell, a sequence of characters.                                  *)
(***************************************************************************)
HiraganaFirst == 12353      \* ぁ
HiraganaLast == 12435       \* ん
KatakanaFirst == 12449      \* ァ
KatakanaLast == 12531       \* ン

\* line 78: re.findall(r"[ぁ-ん]", reading), joined
HiraganaOf(reading) ==
    SelectSeq(reading, LAMBDA c : HiraganaFirst <= c /\ c <= HiraganaLast)

\* line 79: re.findall(r"[ァ-ン]", reading), joined
KatakanaOf(reading) ==
    SelectSeq(reading, LAMBDA c : KatakanaFirst <= c /\ c <= KatakanaLast)

\* lines 67-71: the strings of the span's children that are no <em>
SpanReading(span) ==
    Concat([i \in DOMAIN SelectSeq(span, LAMBDA ch : ch.string # <<>> /\ ~ch.em) |->
                SelectSeq(span, LAMBDA ch : ch.string # <<>> /\ ~ch.em)[i].string])

DigitChars == <<"0", "1", "2", "3", "4", "5", "6", "7", "8", "9">>

DigitValue(c) == (CHOOSE i \in DOMAIN DigitChars : DigitChars[i] = c) - 1

RECURSIVE DecimalValue(_)
DecimalValue(ds) ==
    IF ds = <<>> THEN 0
    ELSE 10 * DecimalValue(SubSeq(ds, 1, Len(ds) - 1)) + DigitValue(ds[Len(ds)])

\* line 76: float(text.replace("%", "")) on texts of digits, "-", "%" and other
\* characters: a value, or ValueError
ParseFloat(text) ==
    LET t == SelectSeq(text, LAMBDA c : c # "%")
        digits == IF t # <<>> /\ Head(t) = "-" THEN Tail(t) ELSE t
    IN  IF digits # <<>> /\ \A i \in DOMAIN digits : digits[i] \in Range(DigitChars)
        THEN [raised |-> FALSE,
              value |-> IF t[1] = "-" THEN 0 - DecimalValue(digits) ELSE DecimalValue(digits)]
        ELSE [raised |-> TRUE, value |-> 0]

UsageRecord(reading, type, percentage) ==
    [reading |-> reading, type |-> type, percentage |-> percentage]

\* the katakana record only when there is no hiragana one (elif for the second if)
ScriptRecordsOneScript(reading, percentage) ==
    IF HiraganaOf(reading) # <<>>
    THEN <<UsageRecord(HiraganaOf(reading), "hiragana", percentage)>>
    ELSE IF KatakanaOf(reading) # <<>>
    THEN <<UsageRecord(KatakanaOf(reading), "katakana", percentage)>> ELSE <<>>

\* lines 80-95
ScriptRecords(reading, percentage) ==
    (IF HiraganaOf(reading) # <<>>
     THEN <<UsageRecord(HiraganaOf(reading), "hiragana", percentage)>> ELSE <<>>)
    \o (IF KatakanaOf(reading) # <<>>
        THEN <<UsageRecord(KatakanaOf(reading), "katakana", percentage)>> ELSE <<>>)

\* the row's records with the test of line 77 dropped
RowRecordsKeepZero(row) ==
    IF row.cells >= 2 /\ row.has_link /\ row.spans # <<>>
    THEN IF ParseFloat(row.percent).raised
         THEN [raised |-> TRUE, value |-> <<>>]
         ELSE [raised |-> FALSE,
               value |-> ScriptRecords(SpanReading(row.spans[1]),
                                       ParseFloat(row.percent).value)]
    ELSE [raised |-> FALSE, value |-> <<>>]

\* lines 61-95: what one row appends to kanji_data, or the ValueError of line 76
RowRecords(row) ==
    IF row.cells >= 2 /\ row.has_link /\ row.spans # <<>>
    THEN IF ParseFloat(row.percent).raised
         THEN [raised |-> TRUE, value |-> <<>>]
         ELSE IF ParseFloat(row.percent).value # 0
         THEN [raised |-> FALSE,
               value |-> ScriptRecords(SpanReading(row.spans[1]),
                                       ParseFloat(row.percent).value)]
         ELSE [raised |-> FALSE, value |-> <<>>]
    ELSE [raised |-> FALSE, value |-> <<>>]

\* list.sort / sorted with reverse=True on items decorated with their key:
\* stable, descending by key
RECURSIVE InsertDescending(_, _)
InsertDescending(sorted, x) ==
    IF sorted = <<>> THEN <<x>>
    ELSE IF Head(sorted).key >= x.key
    THEN <<Head(sorted)>> \o InsertDescending(Tail(sorted), x)
    ELSE <<x>> \o sorted

RECURSIVE SortDescendingFrom(_, _)
SortDescendingFrom(sorted, rest) ==
    IF rest = <<>> THEN sorted
    ELSE SortDescendingFrom(InsertDescending(sorted, Head(rest)), Tail(rest))

SortDescending(decorated) ==
    [i \in DOMAIN decorated |-> SortDescendingFrom(<<>>, decorated)[i].item]

\* key=lambda x: x["percentage"], line 96
KeyedByPercentage(records) ==
    [i \in DOMAIN records |-> [key |-> records[i].percentage, item |-> records[i]]]

\* lines 59-95: the loop over the rows; a ValueError ends it
RECURSIVE UsageLoop(_, _)
UsageLoop(rows, kanji_data_acc) ==
    IF rows = <<>> THEN [raised |-> FALSE, value |-> kanji_data_acc]
    ELSE IF RowRecords(Head(rows)).raised THEN [raised |-> TRUE, value |-> <<>>]
    ELSE UsageLoop(Tail(rows), kanji_data_acc \o RowRecords(Head(rows)).value)

\* lines 56-97
ExtractKanjiUsageData(rows) ==
    IF UsageLoop(rows, <<>>).raised THEN [raised |-> TRUE, value |-> <<>>]
    ELSE [raised |-> FALSE,
          value |-> SortDescending(KeyedByPercentage(UsageLoop(rows, <<>>).value))]

(***************************************************************************)
(* filter_and_sort_readings and filter_and_sort_reading_type,              *)
(* src/main.py:100-123.  The lookup is a function from reading to          *)
(* percentage; a ranked mapping is a sequence of                           *)
(* [reading, meaning, percentage].                                         *)
(***************************************************************************)
UsageReadings(usage) == {usage[i].reading : i \in DOMAIN usage}

Max(S) == CHOOSE x \in S : \A y \in S : y <= x

Min(S) == CHOOSE x \in S : \A y \in S : x <= y

\* the lookup keeping the first record of a reading instead of the last
ReadingPercentagesFirstWins(usage) ==
    [r \in UsageReadings(usage) |->
        usage[Min({i \in DOMAIN usage : usage[i].reading = r})].percentage]

\* lines 102-104: the dict comprehension, a later item replacing an earlier one
ReadingPercentages(usage) ==
    [r \in UsageReadings(usage) |->
        usage[Max({i \in DOMAIN usage : usage[i].reading = r})].percentage]

\* reading_percentages.get(reading, 0), line 119
PercentageOrZero(lookup, reading) ==
    IF reading \in DOMAIN lookup THEN lookup[reading] ELSE 0

\* key=lambda item: reading_percentages.get(item[0], 0), line 119
KeyedByLookup(reading_type_dict, lookup) ==
    [i \in DOMAIN reading_type_dict |->
        [key |-> PercentageOrZero(lookup, reading_type_dict[i].reading),
         item |-> reading_type_dict[i]]]

RankedEntry(item, lookup) ==
    [reading |-> item.reading, meaning |-> item.meaning,
     percentage |-> lookup[item.reading]]

\* the comprehension without its filter, absent readings kept with 0
FilterAndSortReadingTypeKeepAll(reading_type_dict, lookup) ==
    LET items == SortDescending(KeyedByLookup(reading_type_dict, lookup))
    IN  [i \in DOMAIN items |->
            [reading |-> items[i].reading, meaning |-> items[i].meaning,
             percentage |-> PercentageOrZero(lookup, items[i].reading)]]

\* the comprehension over the items as they come, without sorted()
FilterAndSortReadingTypeUnsorted(reading_type_dict, lookup) ==
    LET kept == SelectSeq(reading_type_dict, LAMBDA item : item.reading \in DOMAIN lookup)
    IN  [i \in DOMAIN kept |-> RankedEntry(kept[i], lookup)]

\* lines 113-123
FilterAndSortReadingType(reading_type_dict, lookup) ==
    LET items == SortDescending(KeyedByLookup(reading_type_dict, lookup))
        kept == SelectSeq(items, LAMBDA item : item.reading \in DOMAIN lookup)
    IN  [i \in DOMAIN kept |-> RankedEntry(kept[i], lookup)]

\* lines 100-110
FilterAndSortReadings(kun, on, nan, usage) ==
    [kunyomi |-> FilterAndSortReadingType(kun, ReadingPercentages(usage)),
     onyomi |-> FilterAndSortReadingType(on, ReadingPercentages(usage)),
     nanori |-> FilterAndSortReadingType(nan, ReadingPercentages(usage))]

(***************************************************************************)
(* Inputs of the Usage Table Extractor and of the Ranker.                  *)
(***************************************************************************)
Text(string) == [em |-> FALSE, string |-> string]

Em(string) == [em |-> TRUE, string |-> string]

Row(cells, has_link, spans, percent) ==
    [cells |-> cells, has_link |-> has_link, spans |-> spans, percent |-> percent]

PercentTexts == {<<"0", "%">>, <<"7", "%">>, <<"-", "3", "%">>, <<"1", "2">>}

\* the tokens あ-, ア and あアい
PlainSpans == {<<Text(HiraA \o Dash)>>, <<Text(KataA)>>, <<Text(HiraA), Text(KataA \o HiraI)>>}

RowSet ==
    {Row(2, TRUE, <<sp>>, p) : sp \in PlainSpans, p \in PercentTexts}
    \cup {Row(2, TRUE, <<<<Text(HiraA)>>>>, <<"x", "%">>),
          Row(1, TRUE, <<<<Text(HiraA)>>>>, <<>>),
          Row(2, FALSE, <<>>, <<"7", "%">>),
          Row(2, TRUE, <<>>, <<"7", "%">>),
          Row(3, TRUE, <<<<Text(<<>>)>>>>, <<"7", "%">>),
          Row(2, TRUE, <<<<Text(HiraI), Em(HiraA)>>>>, <<"7", "%">>),
          Row(2, TRUE, <<<<Text(KataA)>>, <<Text(HiraA)>>>>, <<"1", "2", "%">>),
          Row(2, TRUE, <<<<Text(Dash \o Choon)>>>>, <<"7", "%">>),
          Row(2, TRUE, <<<<Text(KataA \o Choon)>>>>, <<"-", "3", "%">>)}

Entry(reading, meaning) == [reading |-> reading, meaning |-> meaning]

EntrySet ==
    {Entry(HiraA, <<>>), Entry(HiraA, <<"to meet">>), Entry(HiraI, <<"to fit">>),
     Entry(KataA, <<>>)}

\* the dicts of at most n entries: the readings are pairwise distinct
MappingSet(n) ==
    {d \in SeqsUpTo(EntrySet, n) :
        \A i, j \in DOMAIN d : d[i].reading = d[j].reading => i = j}

ScriptOf(reading) == IF HiraganaOf(reading) # <<>> THEN "hiragana" ELSE "katakana"

UsageSet ==
    {UsageRecord(r, ScriptOf(r), p) : r \in {HiraA, HiraI, KataA}, p \in {0 - 3, 7}}
    \cup {UsageRecord(HiraI, "hiragana", 0)}

OtherCategories ==
    {<<<<>>, <<>>>>,
     <<<<Entry(KataA, <<"to meet">>)>>, <<Entry(HiraA, <<>>), Entry(KataA, <<>>)>>>>}

PageCategories ==
    {<<<<>>, <<>>, <<>>>>,
     <<<<Entry(HiraA, <<"to meet">>), Entry(HiraI, <<>>)>>,
       <<Entry(KataA, <<>>)>>,
       <<Entry(HiraI, <<"to meet">>)>>>>,
     <<<<Entry(HiraI, <<"to meet">>), Entry(KataA, <<>>), Entry(HiraA, <<>>)>>,
       <<>>,
       <<Entry(HiraA, <<"to meet">>)>>>>}

(***************************************************************************)
(* SpecCore: the Usage Table Extractor and the Ranker.  Either             *)
(* filter_and_sort_readings is called with any three mappings and any      *)
(* usage-record sequence (pc = "rank_direct"), or a page's rows go through *)
(* extract_kanji_usage_data first, as in fetch_kanji_data lines 140-143.   *)
(***************************************************************************)
InitCore ==
    /\ filtered = [kunyomi |-> <<>>, onyomi |-> <<>>, nanori |-> <<>>]
    /\ \/ /\ pc = "rank_direct"
          /\ soup_rows = <<>>
          /\ \E u \in SeqsUpTo(UsageSet, MaxUsage) :
                kanji_usage_data = [raised |-> FALSE, value |-> u]
          /\ kunyomi \in MappingSet(MaxMapping)
          /\ \E o \in OtherCategories : onyomi = o[1] /\ nanori = o[2]
       \/ /\ pc = "extract"
          /\ soup_rows \in SeqsUpTo(RowSet, MaxRows)
          /\ kanji_usage_data = [raised |-> FALSE, value |-> <<>>]
          /\ \E c \in PageCategories :
                kunyomi = c[1] /\ onyomi = c[2] /\ nanori = c[3]
    /\ IdleReading /\ IdleMain

CallExtractKanjiUsageData ==
    /\ pc = "extract"
    /\ kanji_usage_data' = ExtractKanjiUsageData(soup_rows)
    /\ pc' = IF ExtractKanjiUsageData(soup_rows).raised THEN "raised" ELSE "rank_page"
    /\ UNCHANGED <<soup_rows, kunyomi, onyomi, nanori, filtered, readingVars, mainVars>>

CallFilterAndSortReadings ==
    /\ pc \in {"rank_direct", "rank_page"}
    /\ filtered' = FilterAndSortReadings(kunyomi, onyomi, nanori, kanji_usage_data.value)
    /\ pc' = IF pc = "rank_direct" THEN "ranked_direct" ELSE "ranked_page"
    /\ UNCHANGED <<soup_rows, kanji_usage_data, kunyomi, onyomi, nanori,
                   readingVars, mainVars>>

NextCore == CallExtractKanjiUsageData \/ CallFilterAndSortReadings

SpecCore == InitCore /\ [][NextCore]_vars

Ranked == pc \in {"ranked_direct", "ranked_page"}

\* the usage records of the call and, per reading, the indices that hold it
Usage == kanji_usage_data.value

IndicesOf(r) == {i \in DOMAIN Usage : Usage[i].reading = r}

\* the input mapping and the output of each of the three categories
Categories ==
    {<<kunyomi, filtered.kunyomi>>, <<onyomi, filtered.onyomi>>, <<nanori, filtered.nanori>>}

PositionIn(mapping, r) == CHOOSE i \in DOMAIN mapping : mapping[i].reading = r

\* C1: the Ranker's output holds exactly the readings of the mapping that
\* occur in the usage records, each once, with the mapping's meaning and the
\* lookup's percentage; without usage records it is empty.
C1_RankerKeys ==
    Ranked =>
        \A c \in Categories :
            /\ DictKeys(c[2]) = DictKeys(c[1]) \cap UsageReadings(Usage)
            /\ \A i, j \in DOMAIN c[2] : c[2][i].reading = c[2][j].reading => i = j
            /\ \A i \in DOMAIN c[2] :
                    /\ c[2][i].meaning = DictGet(c[1], c[2][i].reading, <<>>)
                    /\ \E k \in IndicesOf(c[2][i].reading) :
                            /\ c[2][i].percentage = Usage[k].percentage
                            /\ \A l \in IndicesOf(c[2][i].reading) : l <= k
            /\ Usage = <<>> => c[2] = <<>>

\* a mapping of two readings, one in the usage records and one not
C1_Witness ==
    /\ pc = "ranked_direct"
    /\ Len(kunyomi) = 2 /\ Len(filtered.kunyomi) = 1
    /\ filtered.kunyomi[1].meaning = <<"to meet">>
    /\ filtered.kunyomi[1].percentage = 7

\* C2: the Ranker's output is in non-increasing order of percentage, and two
\* entries of equal percentage are in the order of the input mapping.
C2_RankerOrder ==
    Ranked =>
        \A c \in Categories :
            \A i, j \in DOMAIN c[2] :
                i < j =>
                    /\ c[2][i].percentage >= c[2][j].percentage
                    /\ c[2][i].percentage = c[2][j].percentage =>
                            PositionIn(c[1], c[2][i].reading)
                                < PositionIn(c[1], c[2][j].reading)

\* a mapping of three readings: the last one moves to the front, the other
\* two tie and keep their order
C2_Witness ==
    /\ pc = "ranked_direct"
    /\ Len(kunyomi) = 3 /\ Len(filtered.kunyomi) = 3
    /\ filtered.kunyomi[1].reading = kunyomi[3].reading
    /\ filtered.kunyomi[2].reading = kunyomi[1].reading
    /\ filtered.kunyomi[2].percentage = filtered.kunyomi[3].percentage
    /\ filtered.kunyomi[1].percentage > filtered.kunyomi[2].percentage

\* C9: the lookup maps a reading to the percentage of the last usage record
\* that holds it, all three categories are ranked with that lookup, and in
\* the pipeline, where the records are the extractor's sorted output, that is
\* the lowest non-zero percentage among the rows that yield the reading.
C9_LastWriteWins ==
    /\ pc \in {"rank_direct", "rank_page", "ranked_direct", "ranked_page"} =>
            \A r \in UsageReadings(Usage) :
                ReadingPercentages(Usage)[r] = Usage[Max(IndicesOf(r))].percentage
    /\ Ranked =>
            \A c \in Categories : \A i \in DOMAIN c[2] :
                c[2][i].percentage = Usage[Max(IndicesOf(c[2][i].reading))].percentage
    /\ pc = "ranked_page" =>
            \A c \in Categories : \A i \in DOMAIN c[2] :
                c[2][i].percentage =
                    Min({ParseFloat(soup_rows[k].percent).value : k \in
                            {k \in DOMAIN soup_rows :
                                /\ soup_rows[k].cells >= 2
                                /\ soup_rows[k].has_link
                                /\ soup_rows[k].spans # <<>>
                                /\ ParseFloat(soup_rows[k].percent).value # 0
                                /\ c[2][i].reading \in
                                        {HiraganaOf(SpanReading(soup_rows[k].spans[1])),
                                         KatakanaOf(SpanReading(soup_rows[k].spans[1]))}}})

\* two rows of one reading with different percentages, the higher one last
\* on the page
C9_Witness ==
    /\ pc = "ranked_page"
    /\ Len(soup_rows) = 2
    /\ soup_rows[1].spans # <<>> /\ soup_rows[2].spans # <<>>
    /\ SpanReading(soup_rows[1].spans[1]) = SpanReading(soup_rows[2].spans[1])
    /\ ParseFloat(soup_rows[1].percent).value = 7
    /\ ParseFloat(soup_rows[2].percent).value = 12
    /\ filtered.kunyomi # <<>>
    /\ filtered.kunyomi[1].percentage = 7

\* the statement of C3 as the specification has it: every emitted record has
\* a percentage strictly greater than 0
C3_StrictlyPositive ==
    pc \in {"rank_page", "ranked_page"} =>
        \A i \in DOMAIN Usage : Usage[i].percentage > 0

\* C3: no emitted record has percentage 0, and a row whose second cell parses
\* to 0 yields no record; a negative percentage is emitted as it stands.
C3_NeverZero ==
    pc \in {"rank_page", "ranked_page"} =>
        /\ \A i \in DOMAIN Usage : Usage[i].percentage # 0
        /\ \A k \in DOMAIN soup_rows :
                ParseFloat(soup_rows[k].percent).value = 0 =>
                    RowRecords(soup_rows[k]).value = <<>>
        /\ Len(Usage) <=
                2 * Cardinality({k \in DOMAIN soup_rows :
                                    ParseFloat(soup_rows[k].percent).value # 0})

\* a page with a 0% row and a -3% row: one record, of percentage -3
C3_Witness ==
    /\ pc = "rank_page"
    /\ Len(soup_rows) = 2
    /\ ParseFloat(soup_rows[1].percent) = [raised |-> FALSE, value |-> 0]
    /\ soup_rows[1].spans # <<>>
    /\ Len(Usage) = 1
    /\ Usage[1].percentage = 0 - 3

\* the records the claim expects of one qualifying row with reading token t
RECURSIVE CountOf(_, _)
CountOf(s, x) ==
    IF s = <<>> THEN 0 ELSE (IF Head(s) = x THEN 1 ELSE 0) + CountOf(Tail(s), x)

Qualifies(row) ==
    /\ row.cells >= 2 /\ row.has_link /\ row.spans # <<>>
    /\ ~ParseFloat(row.percent).raised
    /\ ParseFloat(row.percent).value # 0

IsKana(c) ==
    \/ HiraganaFirst <= c /\ c <= HiraganaLast
    \/ KatakanaFirst <= c /\ c <= KatakanaLast

\* C4: a qualifying row yields one record per non-empty script subsequence of
\* its reading token, the hiragana one first: two records of the row's
\* percentage for a mixed token, one for a single-script token, none for a
\* token without kana; the records of the page are those of its rows and no
\* emitted reading holds a character that is not kana.
C4_RecordsPerRow ==
    pc \in {"rank_page", "ranked_page"} =>
        /\ \A k \in DOMAIN soup_rows :
            LET row == soup_rows[k]
                token == SpanReading(row.spans[1])
                hira == SelectSeq(token, LAMBDA c : c \in HiraganaFirst..HiraganaLast)
                kata == SelectSeq(token, LAMBDA c : c \in KatakanaFirst..KatakanaLast)
                pct == ParseFloat(row.percent).value
                got == RowRecords(row).value
            IN  Qualifies(row) =>
                    /\ Len(got) = (IF hira # <<>> THEN 1 ELSE 0) + (IF kata # <<>> THEN 1 ELSE 0)
                    /\ hira # <<>> => got[1] = UsageRecord(hira, "hiragana", pct)
                    /\ kata # <<>> => got[Len(got)] = UsageRecord(kata, "katakana", pct)
                    /\ \A i \in DOMAIN got : CountOf(Usage, got[i]) >=
                            Cardinality({j \in DOMAIN soup_rows :
                                Qualifies(soup_rows[j])
                                /\ got[i] \in Range(RowRecords(soup_rows[j]).value)})
        /\ Len(Usage) = Len(Concat([k \in DOMAIN soup_rows |->
                                IF Qualifies(soup_rows[k])
                                THEN RowRecords(soup_rows[k]).value ELSE <<>>]))
        /\ \A i \in DOMAIN Usage : \A j \in DOMAIN Usage[i].reading :
                IsKana(Usage[i].reading[j])

\* the token あアい at 7%: the records あい (hiragana) and ア (katakana), both 7
C4_Witness ==
    /\ pc = "rank_page"
    /\ Len(soup_rows) = 1
    /\ soup_rows[1].spans # <<>>
    /\ SpanReading(soup_rows[1].spans[1]) = HiraA \o KataA \o HiraI
    /\ Usage = <<UsageRecord(HiraA \o HiraI, "hiragana", 7),
                 UsageRecord(KataA, "katakana", 7)>>

(***************************************************************************)
(* fetch_kanji_data, src/main.py:126-150.  A page is what                  *)
(* fetch_html_content gives for a character: [fetched, has_div, kunyomi,   *)
(* onyomi, nanori, rows], the three category sections being those of the   *)
(* readings div.  The outcome of a call is [kind, value] with kind         *)
(* "result" (a CharacterResult), "none" (None returned) or "raised".       *)
(***************************************************************************)
NoResult == [kanji |-> "", kunyomi |-> <<>>, onyomi |-> <<>>, nanori |-> <<>>]

Outcome(kind, value) == [kind |-> kind, value |-> value]

CharacterResult(kanji, ranked) ==
    [kanji |-> kanji, kunyomi |-> ranked.kunyomi, onyomi |-> ranked.onyomi,
     nanori |-> ranked.nanori]

FetchKanjiData(kanji, page) ==
    IF ~page.fetched THEN Outcome("none", NoResult)                  \* lines 128-130
    ELSE IF ~page.has_div THEN Outcome("none", NoResult)             \* lines 132-137
    ELSE IF ExtractKanjiUsageData(page.rows).raised                  \* line 140
    THEN Outcome("raised", NoResult)
    ELSE Outcome("result",
                 CharacterResult(kanji,
                     FilterAndSortReadings(ExtractReadingType(page.kunyomi),
                                           ExtractReadingType(page.onyomi),
                                           ExtractReadingType(page.nanori),
                                           ExtractKanjiUsageData(page.rows).value)))

Item(cells, text) ==
    [has_table |-> TRUE, cells |-> cells, has_span |-> text # <<>>, text |-> text]

Section(items) == [header |-> TRUE, list |-> TRUE, items |-> items]

Page(fetched, has_div, kun, on, nan, rows) ==
    [fetched |-> fetched, has_div |-> has_div, kunyomi |-> kun, onyomi |-> on,
     nanori |-> nan, rows |-> rows]

\* a page with readings and a usage table
FullPage ==
    Page(TRUE, TRUE,
         Section(<<Item(<<HiraA, Dash>>, <<"to meet">>), Item(<<HiraI>>, <<>>),
                   Item(<<HiraA>>, <<"to fit">>)>>),
         Section(<<Item(<<KataA>>, <<>>)>>),
         NoSection,
         <<Row(2, TRUE, <<<<Text(HiraA \o Dash)>>>>, <<"0", "%">>),
           Row(2, TRUE, <<<<Text(HiraA)>>>>, <<"1", "2", "%">>),
           Row(2, TRUE, <<<<Text(KataA)>>>>, <<"0", "%">>),
           Row(2, TRUE, <<<<Text(KataA)>>>>, <<"7", "%">>)>>)

\* the same page with a usage row whose second cell is no number
BadCellPage ==
    [FullPage EXCEPT !.rows = Append(@, Row(2, TRUE, <<<<Text(HiraI)>>>>, <<"x">>))]

PageSet ==
    {Page(FALSE, FALSE, NoSection, NoSection, NoSection, <<>>),
     Page(TRUE, FALSE, NoSection, NoSection, NoSection, <<>>),
     Page(TRUE, TRUE, NoSection, NoSection, NoSection, <<>>),
     FullPage, BadCellPage}

(***************************************************************************)
(* json.dump and json.load of the result list, src/main.py:205-212: an     *)
(* object is a sequence of <<key, value>> members.                         *)
(***************************************************************************)
DumpMapping(ranked) ==
    [i \in DOMAIN ranked |->
        <<ranked[i].reading,
          <<<<"meaning", ranked[i].meaning>>, <<"percentage", ranked[i].percentage>>>>>>]

LoadMapping(members) ==
    [i \in DOMAIN members |->
        [reading |-> members[i][1], meaning |-> members[i][2][1][2],
         percentage |-> members[i][2][2][2]]]

JsonDump(results) ==
    [i \in DOMAIN results |->
        <<<<"kanji", results[i].kanji>>,
          <<"kunyomi", DumpMapping(results[i].kunyomi)>>,
          <<"onyomi", DumpMapping(results[i].onyomi)>>,
          <<"nanori", DumpMapping(results[i].nanori)>>>>]

JsonLoad(text) ==
    [i \in DOMAIN text |->
        [kanji |-> text[i][1][2], kunyomi |-> LoadMapping(text[i][2][2]),
         onyomi |-> LoadMapping(text[i][3][2]), nanori |-> LoadMapping(text[i][4][2])]]

(***************************************************************************)
(* invoke, src/main.py:163-182.  A response is the decoded JSON value:     *)
(* [type, fields, error, result], fields being the keys of an object or    *)
(* the elements of an array.                                               *)
(***************************************************************************)
Null == "null"

Response(type, fields, error, result) ==
    [type |-> type, fields |-> fields, error |-> error, result |-> result]

\* invoke without the test of the error field (line 180)
InvokeIgnoreError(response) ==
    IF Cardinality(response.fields) # 2 THEN [raised |-> TRUE, result |-> <<>>]
    ELSE IF "error" \notin response.fields THEN [raised |-> TRUE, result |-> <<>>]
    ELSE IF "result" \notin response.fields THEN [raised |-> TRUE, result |-> <<>>]
    ELSE IF response.type # "object" THEN [raised |-> TRUE, result |-> <<>>]
    ELSE [raised |-> FALSE, result |-> response.result]

Invoke(response) ==
    IF Cardinality(response.fields) # 2 THEN [raised |-> TRUE, result |-> <<>>]            \* 174
    ELSE IF "error" \notin response.fields THEN [raised |-> TRUE, result |-> <<>>]        \* 176
    ELSE IF "result" \notin response.fields THEN [raised |-> TRUE, result |-> <<>>]       \* 178
    ELSE IF response.type # "object" THEN [raised |-> TRUE, result |-> <<>>]  \* 180: TypeError
    ELSE IF response.error # Null THEN [raised |-> TRUE, result |-> <<>>]                 \* 180
    ELSE [raised |-> FALSE, result |-> response.result]                                   \* 182

NoteIdLists == {[i \in 1..k |-> i] : k \in 0..MaxNotes}

BadResponses ==
    {Response("object", {"result", "error"}, "deck not found", <<>>),
     Response("object", {"result", "error", "extra"}, Null, <<>>),
     Response("object", {"result", "extra"}, Null, <<>>),
     Response("object", {"error", "extra"}, Null, <<>>),
     Response("array", {"result", "error"}, Null, <<>>)}

FindNotesResponses ==
    {Response("object", {"result", "error"}, Null, ids) : ids \in NoteIdLists}
    \cup BadResponses

UpdateResponses == {Response("object", {"result", "error"}, Null, <<>>)} \cup BadResponses

(***************************************************************************)
(* The field texts of lines 237-282: one item per reading, gray below 1%,  *)
(* joined by <br>.                                                         *)
(***************************************************************************)
FormatReadings(ranked) ==
    [i \in DOMAIN ranked |->
        [gray |-> ranked[i].percentage < 1, reading |-> ranked[i].reading,
         meaning |-> ranked[i].meaning]]

NoteFields(entry) ==
    [KatakanaReading |-> FormatReadings(entry.onyomi),
     HiraganaReading |-> FormatReadings(entry.kunyomi),
     NamesReadings |-> FormatReadings(entry.nanori)]

NoFields == [KatakanaReading |-> <<>>, HiraganaReading |-> <<>>, NamesReadings |-> <<>>]

\* lines 227-231: the first entry of kanji_data for the character
HasEntry(data, kanji) == \E i \in DOMAIN data : data[i].kanji = kanji

EntryOf(data, kanji) ==
    data[Min({i \in DOMAIN data : data[i].kanji = kanji})]

Call(action, kanji, note, fields, response) ==
    [action |-> action, kanji |-> kanji, note |-> note, fields |-> fields,
     response |-> response, raised |-> Invoke(response).raised,
     result |-> Invoke(response).result]

(***************************************************************************)
(* main, src/main.py:185-306.                                              *)
(***************************************************************************)
Characters == {"K1", "K2"}

Init ==
    /\ pc = "start"
    /\ kanjis \in SeqsUpTo(Characters, MaxKanjis)
    /\ task = <<>> /\ future = <<>> /\ finished = <<>>
    /\ kanji_data = <<>> /\ kanji_data_json = <<>>
    /\ target = 0 /\ notes_left = <<>> /\ calls = <<>>
    /\ IdleReading /\ IdleCore

unchangedPure == <<readingVars, coreVars>>

\* lines 187-189: nothing to do without characters
ReturnNoKanjis ==
    /\ pc = "start" /\ kanjis = <<>>
    /\ pc' = "done"
    /\ UNCHANGED <<mainVars, unchangedPure>>

\* lines 191-194: executor.map submits one task per character
SubmitTasks ==
    /\ pc = "start" /\ kanjis # <<>>
    /\ task' = [i \in DOMAIN kanjis |-> "pending"]
    /\ future' = [i \in DOMAIN kanjis |-> Outcome("none", NoResult)]
    /\ pc' = "fetch"
    /\ UNCHANGED <<kanjis, finished, kanji_data, kanji_data_json, target, notes_left,
                   calls, unchangedPure>>

\* a worker thread takes the oldest queued task; the default pool has more
\* threads than the model has tasks
StartTask(i) ==
    /\ pc = "fetch"
    /\ task[i] = "pending"
    /\ \A j \in 1..(i - 1) : task[j] # "pending"
    /\ task' = [task EXCEPT ![i] = "running"]
    /\ UNCHANGED <<pc, kanjis, future, finished, kanji_data, kanji_data_json, target, notes_left,
                   calls, unchangedPure>>

\* the worker runs fetch_kanji_data on whatever the site serves
FinishTask(i) ==
    /\ pc \in {"fetch", "crashed"}
    /\ task[i] = "running"
    /\ \E page \in PageSet : future' = [future EXCEPT ![i] = FetchKanjiData(kanjis[i], page)]
    /\ task' = [task EXCEPT ![i] = "done"]
    /\ finished' = Append(finished, i)
    /\ UNCHANGED <<pc, kanjis, kanji_data, kanji_data_json, target, notes_left, calls,
                   unchangedPure>>

\* the result iterator yielding whichever finished task has the lowest index
NextYieldedAsCompleted(tasks) ==
    IF \E i \in DOMAIN tasks : tasks[i] = "done"
    THEN Min({i \in DOMAIN tasks : tasks[i] = "done"})
    ELSE Min({i \in DOMAIN tasks : tasks[i] # "yielded"})

\* the result iterator of executor.map yields in submission order
NextYielded(tasks) == Min({i \in DOMAIN tasks : tasks[i] # "yielded"})

\* lines 192-201: list() takes the next result when its task has finished
CollectResult ==
    /\ pc = "fetch"
    /\ \E i \in DOMAIN task : task[i] # "yielded"
    /\ task[NextYielded(task)] = "done"
    /\ future[NextYielded(task)].kind # "raised"
    /\ kanji_data' = Append(kanji_data, future[NextYielded(task)])
    /\ task' = [task EXCEPT ![NextYielded(task)] = "yielded"]
    /\ UNCHANGED <<pc, kanjis, future, finished, kanji_data_json, target, notes_left, calls,
                   unchangedPure>>

\* the task's exception is re-raised in main: the queued tasks are cancelled
\* and main ends with the exception once the running ones are through
CollectRaises ==
    /\ pc = "fetch"
    /\ \E i \in DOMAIN task : task[i] # "yielded"
    /\ task[NextYielded(task)] = "done"
    /\ future[NextYielded(task)].kind = "raised"
    /\ task' = [i \in DOMAIN task |-> IF task[i] = "pending" THEN "cancelled" ELSE task[i]]
    /\ pc' = "crashed"
    /\ UNCHANGED <<kanjis, future, finished, kanji_data, kanji_data_json, target, notes_left, calls,
                   unchangedPure>>

\* the filter that keeps the None entries
DropNullsKeepAll(collected) == [i \in DOMAIN collected |-> collected[i].value]

\* line 203
DropNulls(collected) ==
    [i \in DOMAIN SelectSeq(collected, LAMBDA o : o.kind = "result") |->
        SelectSeq(collected, LAMBDA o : o.kind = "result")[i].value]

\* lines 201-203: every result is in, the pool is left, the nulls are dropped
FilterResults ==
    /\ pc = "fetch"
    /\ \A i \in DOMAIN task : task[i] = "yielded"
    /\ kanji_data' = DropNulls(kanji_data)
    /\ pc' = "dump"
    /\ UNCHANGED <<kanjis, task, future, finished, kanji_data_json, target, notes_left, calls,
                   unchangedPure>>

\* lines 205-208; the pool and its futures are referred to no more
DumpResults ==
    /\ pc = "dump"
    /\ kanji_data_json' = JsonDump(kanji_data)
    /\ future' = <<>> /\ finished' = <<>>
    /\ pc' = "load"
    /\ UNCHANGED <<kanjis, task, kanji_data, target, notes_left, calls, unchangedPure>>

\* lines 211-222: the file is read back and the loop over the characters starts
LoadResults ==
    /\ pc = "load"
    /\ kanji_data' = JsonLoad(kanji_data_json)
    /\ target' = 1
    /\ pc' = "update"
    /\ UNCHANGED <<kanjis, task, future, finished, kanji_data_json, notes_left, calls, unchangedPure>>

\* the loop of line 222 left at the first character it has nothing to do for
NextTargetBreak(t) == Len(kanjis) + 1

\* the for loop of line 222 goes on to the next character
NextTarget(t) == t + 1

\* an exception of invoke leaves main: lines 285 and 296 have no handler
AfterCall(call, on_success) == IF call.raised THEN "aborted" ELSE on_success

\* lines 233-234: no entry for the character
KanjiNotFound ==
    /\ pc = "update" /\ target <= Len(kanjis)
    /\ ~HasEntry(kanji_data, kanjis[target])
    /\ target' = NextTarget(target)
    /\ UNCHANGED <<pc, kanjis, task, future, finished, kanji_data, kanji_data_json, notes_left,
                   calls, unchangedPure>>

\* lines 235-292: the fields are formatted and the notes are looked up
FindNotes ==
    /\ pc = "update" /\ target <= Len(kanjis)
    /\ HasEntry(kanji_data, kanjis[target])
    /\ \E response \in FindNotesResponses :
        LET call == Call("findNotes", kanjis[target], 0, NoFields, response)
        IN  /\ calls' = Append(calls, call)
            /\ notes_left' = IF call.raised THEN notes_left ELSE call.result
            /\ pc' = AfterCall(call, IF call.result = <<>> THEN "update" ELSE "notes")
            /\ target' = IF ~call.raised /\ call.result = <<>> THEN NextTarget(target) ELSE target
    /\ UNCHANGED <<kanjis, task, future, finished, kanji_data, kanji_data_json, unchangedPure>>

\* lines 295-306: one note is overwritten
UpdateNoteFields ==
    /\ pc = "notes" /\ notes_left # <<>>
    /\ \E response \in UpdateResponses :
        LET call == Call("updateNoteFields", kanjis[target], Head(notes_left),
                         NoteFields(EntryOf(kanji_data, kanjis[target])), response)
        IN  /\ calls' = Append(calls, call)
            /\ notes_left' = IF call.raised THEN notes_left ELSE Tail(notes_left)
            /\ pc' = AfterCall(call, IF Tail(notes_left) = <<>> THEN "update" ELSE "notes")
            /\ target' = IF ~call.raised /\ Tail(notes_left) = <<>>
                         THEN NextTarget(target) ELSE target
    /\ UNCHANGED <<kanjis, task, future, finished, kanji_data, kanji_data_json, unchangedPure>>

\* the loop of line 222 is through
Finish ==
    /\ pc = "update" /\ target > Len(kanjis)
    /\ pc' = "done"
    /\ UNCHANGED <<mainVars, unchangedPure>>

Next ==
    \/ ReturnNoKanjis
    \/ SubmitTasks
    \/ \E i \in DOMAIN task : StartTask(i)
    \/ \E i \in DOMAIN task : FinishTask(i)
    \/ CollectResult
    \/ CollectRaises
    \/ FilterResults
    \/ DumpResults
    \/ LoadResults
    \/ KanjiNotFound
    \/ FindNotes
    \/ UpdateNoteFields
    \/ Finish

Spec == Init /\ [][Next]_vars

Fetching == pc \in {"start", "fetch", "crashed"}

Updating == pc \in {"update", "notes", "done", "aborted"} /\ kanjis # <<>>

\* C6: fetch_kanji_data ends by returning a complete CharacterResult or None
\* and in no other way, so that the fetch batch never stops on a character.
C6_ResultOrNull ==
    /\ \A i \in DOMAIN task :
            task[i] \in {"done", "yielded"} =>
                \/ future[i].kind = "none"
                \/ /\ future[i].kind = "result"
                   /\ DOMAIN future[i].value = {"kanji", "kunyomi", "onyomi", "nanori"}
    /\ pc # "crashed"

\* the non-null outcomes of the futures from index i on, in index order
RECURSIVE ResultsFrom(_)
ResultsFrom(i) ==
    IF i > Len(kanjis) THEN <<>>
    ELSE (IF future[i].kind = "result" THEN <<future[i].value>> ELSE <<>>)
            \o ResultsFrom(i + 1)

\* C7: whatever the order in which the tasks finish, the results are taken in
\* input order, and the sequence that is filtered, written and read back is
\* the non-null outcomes in the order of their characters in the input list.
C7_InputOrder ==
    /\ pc = "fetch" =>
            /\ Len(kanji_data) <= Len(kanjis)
            /\ \A i \in DOMAIN kanji_data : kanji_data[i] = future[i] /\ task[i] = "yielded"
    /\ pc = "dump" =>
            /\ kanji_data = ResultsFrom(1)
            /\ \A i \in DOMAIN future :
                    future[i].kind = "result" => future[i].value.kanji = kanjis[i]
    /\ pc = "load" => kanji_data_json = JsonDump(kanji_data)
    /\ pc \in {"update", "notes", "done", "aborted"} =>
            kanji_data_json = JsonDump(kanji_data)

\* the second task finishes first, both have results
C7_Witness ==
    /\ pc = "dump"
    /\ kanjis = <<"K1", "K2">>
    /\ finished = <<2, 1>>
    /\ Len(kanji_data) = 2
    /\ kanji_data[1].kanji = "K1" /\ kanji_data[2].kanji = "K2"

WellFormed(response) ==
    /\ response.type = "object"
    /\ response.fields = {"result", "error"}
    /\ response.error = Null

\* C8: a call of invoke returns the result of the response exactly when the
\* response is an object of the two fields result and error with a null
\* error, and fails otherwise; a failed call is the last call that is issued
\* and leaves the update phase aborted.
C8_InvokeFailsHard ==
    /\ \A i \in DOMAIN calls :
            /\ ~calls[i].raised <=> WellFormed(calls[i].response)
            /\ ~calls[i].raised => calls[i].result = calls[i].response.result
            /\ calls[i].raised => i = Len(calls) /\ pc = "aborted"
    /\ pc = "aborted" => calls # <<>> /\ calls[Len(calls)].raised

\* an update call fails for the first of two characters that have results
C8_Witness ==
    /\ pc = "aborted"
    /\ Len(kanjis) = 2 /\ target = 1
    /\ HasEntry(kanji_data, kanjis[2])
    /\ Len(calls) = 2
    /\ calls[2].action = "updateNoteFields"
    /\ calls[2].response.error # Null
    /\ Len(notes_left) = 2

\* the calls of one visited character: findNotes, then updateNoteFields for
\* the first n of the note ids it returned, all three fields written
VisitCalls(block, kanji, n) ==
    /\ Len(block) = n + 1
    /\ block[1].action = "findNotes" /\ block[1].kanji = kanji
    /\ n <= Len(block[1].result)
    /\ \A j \in 1..n :
            /\ block[j + 1].action = "updateNoteFields"
            /\ block[j + 1].kanji = kanji
            /\ block[j + 1].note = block[1].result[j]
            /\ block[j + 1].fields = NoteFields(EntryOf(kanji_data, kanji))
            /\ DOMAIN block[j + 1].fields =
                    {"KatakanaReading", "HiraganaReading", "NamesReadings"}

\* rest is what the characters from index t on have caused so far
RECURSIVE Conforms(_, _)
Conforms(t, rest) ==
    IF t > Len(kanjis) \/ t > target THEN rest = <<>>
    ELSE IF ~HasEntry(kanji_data, kanjis[t]) THEN Conforms(t + 1, rest)
    ELSE IF t = target /\ pc = "update" THEN rest = <<>>
    ELSE IF t = target
    THEN \* the character under update, or the one the phase was aborted at
         /\ rest # <<>>
         /\ VisitCalls(rest, kanjis[t], Len(rest) - 1)
         /\ pc = "notes" => Len(rest) - 1 = Len(rest[1].result) - Len(notes_left)
    ELSE \* a character the loop is through with
         /\ rest # <<>>
         /\ Len(rest) >= 1 + Len(rest[1].result)
         /\ VisitCalls(SubSeq(rest, 1, 1 + Len(rest[1].result)), kanjis[t],
                       Len(rest[1].result))
         /\ Conforms(t + 1, SubSeq(rest, 2 + Len(rest[1].result), Len(rest)))

\* C10: no call is issued before every task has finished and the result set
\* is written; the characters are then visited in input order, a character
\* without result causing no call and a character without notes no update
\* call, the loop going on to the next character in both cases, and a
\* character with a result and notes getting one updateNoteFields call per
\* note id, with all three fields, when no call fails (C8).
C10_UpdatePhase ==
    /\ Fetching \/ pc \in {"dump", "load"} => calls = <<>> /\ target = 0
    /\ Updating =>
            /\ \A i \in DOMAIN task : task[i] = "yielded"
            /\ kanji_data_json = JsonDump(kanji_data)
            /\ target \in 1..(Len(kanjis) + 1)
            /\ Conforms(1, calls)
    /\ pc = "done" /\ kanjis # <<>> => target = Len(kanjis) + 1

\* two characters: no result for the first, two notes updated for the second,
\* the loop then at its end
C10_Witness ==
    /\ pc = "done"
    /\ Len(kanjis) = 2
    /\ ~HasEntry(kanji_data, kanjis[1])
    /\ Len(calls) = 3
    /\ calls[1].action = "findNotes" /\ calls[1].kanji = kanjis[2]
    /\ calls[3].action = "updateNoteFields" /\ calls[3].note = 2

====
